---- MODULE Spec2Model ----
(***************************************************************************)
(* Model of src/instancing/material/systems/prepare_mesh_batches.rs:       *)
(* the `system` that rebuilds the MeshBatches<M> resource from the         *)
(* RenderMeshes table and the two entity queries.                          *)
(*                                                                         *)
(* A Handle<Mesh> is a natural number (its HandleId order is the order of  *)
(* the numbers).  A BTreeSet<Handle<Mesh>> is the strictly increasing      *)
(* sequence of its elements (its iteration order); a BTreeMap is a         *)
(* function on its key set.  A panic is the value Panic: the assignment of *)
(* line 82 is then never executed.                                         *)
(***************************************************************************)
EXTENDS Integers, Sequences, FiniteSets

(***************************************************************************)
(* Bounds of the model.                                                    *)
(***************************************************************************)
MaxMeshes == 2
MaxRefs == 3

MeshIds == 1..MaxMeshes

(***************************************************************************)
(* Integer widths.  u32 values are kept below 2^31 by the inputs; the wrap *)
(* of a u32 is computed from its 16-bit halves.                            *)
(***************************************************************************)
U16Modulus == 65536

TruncU16(x) == x % U16Modulus

TruncU32(x) == ((x \div U16Modulus) % U16Modulus) * U16Modulus + (x % U16Modulus)

OverflowsU16(x) == x \div U16Modulus > 0

OverflowsU32(x) == (x \div U16Modulus) \div U16Modulus > 0

Panic == [kind |-> "Panic"]

IsPanic(v) == v.kind = "Panic"

(***************************************************************************)
(* InstancedMeshKey: only index_format is read by the system; layout       *)
(* stands for the remaining fields of the key.                             *)
(***************************************************************************)
InstancedMeshKey(l, f) == [layout |-> l, index_format |-> f]

KeyU16 == InstancedMeshKey(0, "Uint16")

KeyU32 == InstancedMeshKey(0, "Uint32")

KeyNone == InstancedMeshKey(0, "None")

(***************************************************************************)
(* GpuIndexBufferData and Indices.                                         *)
(***************************************************************************)
Indices(w, vals) == [kind |-> w, values |-> vals]

Indexed(ind, n, f) ==
    [kind |-> "Indexed", indices |-> ind, index_count |-> n, index_format |-> f]

NonIndexed(n) == [kind |-> "NonIndexed", vertex_count |-> n]

NoIndexData == [kind |-> "None"]

GpuInstancedMesh(k, bytes, n, ibd) ==
    [key |-> k, vertex_buffer_data |-> bytes, vertex_count |-> n,
     index_buffer_data |-> ibd]

(***************************************************************************)
(* Mesh records the table is drawn from.                                   *)
(***************************************************************************)
QuadU16 ==
    GpuInstancedMesh(KeyU16, <<10, 11, 12, 13>>, 4,
        Indexed(Indices("U16", <<0, 1, 2, 0, 2, 3>>), 6, "Uint16"))

TriU16 ==
    GpuInstancedMesh(KeyU16, <<20, 21, 22>>, 3,
        Indexed(Indices("U16", <<0, 1, 2>>), 3, "Uint16"))

HugeU16 ==
    GpuInstancedMesh(KeyU16, <<30>>, 65536,
        Indexed(Indices("U16", <<65535>>), 1, "Uint16"))

TriU32 ==
    GpuInstancedMesh(KeyU32, <<40, 41>>, 3,
        Indexed(Indices("U32", <<0, 2, 1>>), 3, "Uint32"))

PointsNonIndexed == GpuInstancedMesh(KeyNone, <<50>>, 3, NonIndexed(3))

LinesNonIndexed == GpuInstancedMesh(KeyNone, <<60, 61>>, 5, NonIndexed(5))

NonIndexedUnderU16 == GpuInstancedMesh(KeyU16, <<70>>, 3, NonIndexed(3))

U32UnderU16 ==
    GpuInstancedMesh(KeyU16, <<80, 81>>, 2,
        Indexed(Indices("U32", <<1, 0>>), 2, "Uint32"))

U16UnderNone ==
    GpuInstancedMesh(KeyNone, <<90>>, 2,
        Indexed(Indices("U16", <<0, 1>>), 2, "Uint16"))

(***************************************************************************)
(* render_meshes         the RenderMeshes table: handle -> record          *)
(* query_instance        the mesh handles query_instance yields, in order  *)
(* query_instance_slice  the mesh handles query_instance_slice yields      *)
(* mesh_batches          the MeshBatches resource: key -> MeshBatch        *)
(* entry_batches         mesh_batches as the last pass found it            *)
(* outcome               "idle" before a pass over the present queries,    *)
(*                       "ok" once the system returned, "panic" once it    *)
(*                       panicked                                          *)
(* overflow_checks       whether the build panics on integer overflow      *)
(*                       (it wraps otherwise)                              *)
(***************************************************************************)
VARIABLES
    render_meshes,
    query_instance,
    query_instance_slice,
    mesh_batches,
    entry_batches,
    outcome,
    overflow_checks

vars ==
    <<render_meshes, query_instance, query_instance_slice, mesh_batches,
      entry_batches, outcome, overflow_checks>>

EmptyMap == [k \in {} |-> <<>>]

(***************************************************************************)
(* Key meshes (lines 65-79).                                               *)
(***************************************************************************)
(* A Vec kept in order instead of a set: a handle met twice is held twice.  *)
SortedPush(s, h) ==
    SelectSeq(s, LAMBDA x : x <= h) \o <<h>> \o SelectSeq(s, LAMBDA x : x > h)

(* A set in insertion order instead of in the order of the handles.        *)
InsertionOrderInsert(s, h) ==
    IF \E i \in 1..Len(s) : s[i] = h THEN s ELSE Append(s, h)

BTreeSetInsert(s, h) ==
    IF \E i \in 1..Len(s) : s[i] = h
    THEN s
    ELSE LET below == SelectSeq(s, LAMBDA x : x < h)
             above == SelectSeq(s, LAMBDA x : x > h)
         IN below \o <<h>> \o above

EntryOrDefaultInsert(keyed, k, h) ==
    [x \in DOMAIN keyed \cup {k} |->
        IF x = k
        THEN BTreeSetInsert(IF k \in DOMAIN keyed THEN keyed[k] ELSE <<>>, h)
        ELSE keyed[x]]

RECURSIVE KeyMeshesFrom(_, _, _)
KeyMeshesFrom(table, chain, keyed) ==
    IF chain = <<>> THEN [kind |-> "Keyed", groups |-> keyed]
    ELSE IF Head(chain) \notin DOMAIN table THEN Panic
    ELSE KeyMeshesFrom(table, Tail(chain),
            EntryOrDefaultInsert(keyed, table[Head(chain)].key, Head(chain)))

(* A lookup that skips a handle without a record instead of unwrapping.    *)
KeyMeshesSkipMissing(table, instances, slices) ==
    KeyMeshesFrom(table,
        SelectSeq(instances \o slices, LAMBDA h : h \in DOMAIN table), EmptyMap)

KeyMeshes(table, instances, slices) ==
    KeyMeshesFrom(table, instances \o slices, EmptyMap)

(***************************************************************************)
(* Vertex data (lines 86-93): flat_map over the Option of the lookup skips *)
(* a handle without a record.                                              *)
(***************************************************************************)
RECURSIVE VertexDataFrom(_, _)
VertexDataFrom(table, meshes) ==
    IF meshes = <<>> THEN <<>>
    ELSE (IF Head(meshes) \in DOMAIN table
          THEN table[Head(meshes)].vertex_buffer_data
          ELSE <<>>) \o VertexDataFrom(table, Tail(meshes))

(* The members' bytes taken from the last member to the first.             *)
VertexDataReversed(table, meshes) ==
    VertexDataFrom(table, [i \in 1..Len(meshes) |-> meshes[Len(meshes) + 1 - i]])

VertexData(table, meshes) == VertexDataFrom(table, meshes)

(***************************************************************************)
(* Index data (lines 95-158).                                              *)
(***************************************************************************)
RebaseU16(rhs, base_index, checks) ==
    LET sums == [i \in 1..Len(rhs) |-> TruncU16(base_index) + rhs[i]]
    IN IF checks /\ \E i \in 1..Len(rhs) : OverflowsU16(sums[i])
       THEN Panic
       ELSE Indices("U16", [i \in 1..Len(rhs) |-> TruncU16(sums[i])])

RebaseU32(rhs, base_index, checks) ==
    LET sums == [i \in 1..Len(rhs) |-> TruncU32(base_index) + rhs[i]]
    IN IF checks /\ \E i \in 1..Len(rhs) : OverflowsU32(sums[i])
       THEN Panic
       ELSE Indices("U32", [i \in 1..Len(rhs) |-> TruncU32(sums[i])])

(* Indices of the other width appended as they are instead of a panic.     *)
MergeIndicesCoerced(lhs, rhs, base_index, checks) ==
    IF lhs.kind = "U16" /\ rhs.kind = "U16"
    THEN LET r == RebaseU16(rhs.values, base_index, checks)
         IN IF IsPanic(r) THEN Panic ELSE Indices("U16", lhs.values \o r.values)
    ELSE IF lhs.kind = "U32" /\ rhs.kind = "U32"
    THEN LET r == RebaseU32(rhs.values, base_index, checks)
         IN IF IsPanic(r) THEN Panic ELSE Indices("U32", lhs.values \o r.values)
    ELSE Indices(lhs.kind, lhs.values \o rhs.values)

MergeIndices(lhs, rhs, base_index, checks) ==
    IF lhs.kind = "U16" /\ rhs.kind = "U16"
    THEN LET r == RebaseU16(rhs.values, base_index, checks)
         IN IF IsPanic(r) THEN Panic ELSE Indices("U16", lhs.values \o r.values)
    ELSE IF lhs.kind = "U32" /\ rhs.kind = "U32"
    THEN LET r == RebaseU32(rhs.values, base_index, checks)
         IN IF IsPanic(r) THEN Panic ELSE Indices("U32", lhs.values \o r.values)
    ELSE Panic

AddU32(a, b, checks) ==
    IF checks /\ OverflowsU32(a + b) THEN Panic
    ELSE [kind |-> "U32", value |-> TruncU32(a + b)]

(* The NonIndexed accumulator replaced by the member's count, not added.   *)
MergeIndexDataKeepLast(acc, ibd, base_index, checks) ==
    IF ibd.kind = "Indexed"
    THEN IF acc.kind = "Indexed"
         THEN LET ind == MergeIndices(acc.indices, ibd.indices, base_index, checks)
                  cnt == AddU32(ibd.index_count, acc.index_count, checks)
              IN IF IsPanic(ind) \/ IsPanic(cnt) THEN Panic
                 ELSE Indexed(ind, cnt.value, ibd.index_format)
         ELSE IF acc.kind = "None" THEN ibd
         ELSE Panic
    ELSE IF acc.kind = "NonIndexed" \/ acc.kind = "None" THEN ibd
         ELSE Panic

MergeIndexData(acc, ibd, base_index, checks) ==
    IF ibd.kind = "Indexed"
    THEN IF acc.kind = "Indexed"
         THEN LET ind == MergeIndices(acc.indices, ibd.indices, base_index, checks)
                  cnt == AddU32(ibd.index_count, acc.index_count, checks)
              IN IF IsPanic(ind) \/ IsPanic(cnt) THEN Panic
                 ELSE Indexed(ind, cnt.value, ibd.index_format)
         ELSE IF acc.kind = "None" THEN ibd
         ELSE Panic
    ELSE IF acc.kind = "NonIndexed"
         THEN LET cnt == AddU32(ibd.vertex_count, acc.vertex_count, checks)
              IN IF IsPanic(cnt) THEN Panic ELSE NonIndexed(cnt.value)
         ELSE IF acc.kind = "None" THEN ibd
         ELSE Panic

RECURSIVE IndexFold(_, _, _, _, _)
IndexFold(table, meshes, acc, base_index, checks) ==
    IF meshes = <<>> THEN acc
    ELSE IF Head(meshes) \notin DOMAIN table THEN Panic
    ELSE LET mesh == table[Head(meshes)]
             out == MergeIndexData(acc, mesh.index_buffer_data, base_index, checks)
         IN IF IsPanic(out) THEN Panic
            ELSE IndexFold(table, Tail(meshes), out,
                           base_index + mesh.vertex_count, checks)

IndexData(table, meshes, checks) == IndexFold(table, meshes, NoIndexData, 0, checks)

(***************************************************************************)
(* Indirect data (lines 160-199).                                          *)
(***************************************************************************)
DefaultDrawIndexedIndirect ==
    [vertex_count |-> 0, instance_count |-> 0, base_index |-> 0,
     vertex_offset |-> 0, base_instance |-> 0]

DefaultDrawIndirect ==
    [vertex_count |-> 0, instance_count |-> 0, base_vertex |-> 0,
     base_instance |-> 0]

(* base_index is the running offset of lines 169 and 187: it is advanced   *)
(* and not stored in the entry.                                            *)

(* The running offset written into the entry.                              *)
DrawIndexedIndirectWithOffset(index_count, base_index) ==
    [DefaultDrawIndexedIndirect EXCEPT !.vertex_count = index_count,
                                       !.base_index = base_index]

DrawIndexedIndirect(index_count, base_index) ==
    [DefaultDrawIndexedIndirect EXCEPT !.vertex_count = index_count]

DrawIndirect(vertex_count, base_index) ==
    [DefaultDrawIndirect EXCEPT !.vertex_count = vertex_count]

RECURSIVE IndirectIndexed(_, _, _, _, _)
IndirectIndexed(table, meshes, buffer, base_index, checks) ==
    IF meshes = <<>> THEN [kind |-> "Indexed", buffer |-> buffer]
    ELSE IF Head(meshes) \notin DOMAIN table THEN Panic
    ELSE LET ibd == table[Head(meshes)].index_buffer_data
         IN IF ibd.kind # "Indexed" THEN Panic
            ELSE LET next == AddU32(base_index, ibd.index_count, checks)
                 IN IF IsPanic(next) THEN Panic
                    ELSE IndirectIndexed(table, Tail(meshes),
                            Append(buffer, DrawIndexedIndirect(ibd.index_count, next.value)),
                            next.value, checks)

RECURSIVE IndirectNonIndexed(_, _, _, _, _)
IndirectNonIndexed(table, meshes, buffer, base_index, checks) ==
    IF meshes = <<>> THEN [kind |-> "NonIndexed", buffer |-> buffer]
    ELSE IF Head(meshes) \notin DOMAIN table THEN Panic
    ELSE LET ibd == table[Head(meshes)].index_buffer_data
         IN IF ibd.kind # "NonIndexed" THEN Panic
            ELSE LET next == AddU32(base_index, ibd.vertex_count, checks)
                 IN IF IsPanic(next) THEN Panic
                    ELSE IndirectNonIndexed(table, Tail(meshes),
                            Append(buffer, DrawIndirect(ibd.vertex_count, next.value)),
                            next.value, checks)

IndirectData(table, key, meshes, checks) ==
    IF key.index_format # "None"
    THEN IndirectIndexed(table, meshes, <<>>, 0, checks)
    ELSE IndirectNonIndexed(table, meshes, <<>>, 0, checks)

(***************************************************************************)
(* Batch meshes (lines 82-212).                                            *)
(***************************************************************************)
MeshBatch(table, key, meshes, checks) ==
    LET vertex_data == VertexData(table, meshes)
        index_data == IndexData(table, meshes, checks)
        indirect_data == IndirectData(table, key, meshes, checks)
    IN IF IsPanic(index_data) \/ IsPanic(indirect_data) THEN Panic
       ELSE [kind |-> "MeshBatch", meshes |-> meshes, vertex_data |-> vertex_data,
             index_data |-> index_data, indirect_data |-> indirect_data]

BatchMeshes(table, keyed, checks) ==
    LET batches == [k \in DOMAIN keyed |-> MeshBatch(table, k, keyed[k], checks)]
    IN IF \E k \in DOMAIN keyed : IsPanic(batches[k]) THEN Panic
       ELSE [kind |-> "Batches", batches |-> batches]

PassResult(table, instances, slices, checks) ==
    LET keyed == KeyMeshes(table, instances, slices)
    IN IF IsPanic(keyed) THEN Panic ELSE BatchMeshes(table, keyed.groups, checks)

(***************************************************************************)
(* The system (lines 49-213).  A panic leaves the resource as it was.      *)
(***************************************************************************)
(* The new batches inserted into the old table instead of replacing it.    *)
SystemIncremental ==
    LET result == PassResult(render_meshes, query_instance, query_instance_slice,
                             overflow_checks)
    IN /\ entry_batches' = mesh_batches
       /\ IF IsPanic(result)
          THEN outcome' = "panic" /\ mesh_batches' = mesh_batches
          ELSE /\ outcome' = "ok"
               /\ mesh_batches' =
                    [k \in DOMAIN result.batches \cup DOMAIN mesh_batches |->
                        IF k \in DOMAIN result.batches
                        THEN result.batches[k] ELSE mesh_batches[k]]
       /\ UNCHANGED <<render_meshes, query_instance, query_instance_slice,
                      overflow_checks>>

System ==
    LET result == PassResult(render_meshes, query_instance, query_instance_slice,
                             overflow_checks)
    IN /\ entry_batches' = mesh_batches
       /\ IF IsPanic(result)
          THEN outcome' = "panic" /\ mesh_batches' = mesh_batches
          ELSE outcome' = "ok" /\ mesh_batches' = result.batches
       /\ UNCHANGED <<render_meshes, query_instance, query_instance_slice,
                      overflow_checks>>

(***************************************************************************)
(* The render world between two passes: its entities are cleared and       *)
(* extracted again; a query yields them in the order they were spawned.    *)
(***************************************************************************)
ClearEntities ==
    /\ query_instance # <<>> \/ query_instance_slice # <<>>
    /\ query_instance' = <<>>
    /\ query_instance_slice' = <<>>
    /\ outcome' = "idle"
    /\ entry_batches' = mesh_batches
    /\ UNCHANGED <<render_meshes, mesh_batches, overflow_checks>>

ExtractInstance ==
    \E m \in MeshIds :
        /\ Len(query_instance) + Len(query_instance_slice) < MaxRefs
        /\ query_instance' = Append(query_instance, m)
        /\ outcome' = "idle"
        /\ entry_batches' = mesh_batches
        /\ UNCHANGED <<render_meshes, query_instance_slice, mesh_batches,
                       overflow_checks>>

ExtractInstanceSlice ==
    \E m \in MeshIds :
        /\ Len(query_instance) + Len(query_instance_slice) < MaxRefs
        /\ query_instance_slice' = Append(query_instance_slice, m)
        /\ outcome' = "idle"
        /\ entry_batches' = mesh_batches
        /\ UNCHANGED <<render_meshes, query_instance, mesh_batches,
                       overflow_checks>>

(***************************************************************************)
(* Specifications.                                                         *)
(***************************************************************************)
Tables(records) == UNION {[d -> records] : d \in SUBSET MeshIds}

SeqsUpTo(n) == UNION {[1..k -> MeshIds] : k \in 0..n}

Streams ==
    {q \in SeqsUpTo(MaxRefs) \X SeqsUpTo(MaxRefs) : Len(q[1]) + Len(q[2]) <= MaxRefs}

InitResources(records) ==
    /\ render_meshes \in Tables(records)
    /\ overflow_checks \in BOOLEAN
    /\ mesh_batches = EmptyMap
    /\ entry_batches = EmptyMap
    /\ outcome = "idle"

InitPass(records) ==
    /\ InitResources(records)
    /\ \E q \in Streams : query_instance = q[1] /\ query_instance_slice = q[2]

WellFormedRecords == {QuadU16, TriU16, TriU32, PointsNonIndexed, LinesNonIndexed}

IndexedRecords == {QuadU16, TriU16, HugeU16, TriU32}

MismatchRecords ==
    {QuadU16, NonIndexedUnderU16, U32UnderU16, U16UnderNone, PointsNonIndexed}

FrameRecords == {QuadU16, TriU32, PointsNonIndexed}

Init ==
    /\ InitResources(FrameRecords)
    /\ query_instance = <<>>
    /\ query_instance_slice = <<>>

Next == System \/ ClearEntities \/ ExtractInstance \/ ExtractInstanceSlice

Spec == Init /\ [][Next]_vars

InitBatch == InitPass(WellFormedRecords)

SpecBatch == InitBatch /\ [][System]_vars

InitRebase == InitPass(IndexedRecords)

SpecRebase == InitRebase /\ [][System]_vars

InitMismatch == InitPass(MismatchRecords)

SpecMismatch == InitMismatch /\ [][System]_vars

(***************************************************************************)
(* Vocabulary of the properties.                                           *)
(***************************************************************************)
Range(s) == {s[i] : i \in 1..Len(s)}

Referenced == Range(query_instance) \cup Range(query_instance_slice)

Occurrences(s, x) == Cardinality({i \in 1..Len(s) : s[i] = x})

RECURSIVE SumTo(_, _)
SumTo(f, n) == IF n = 0 THEN 0 ELSE f[n] + SumTo(f, n - 1)

RecordOf(b, i) == render_meshes[b.meshes[i]]

Members(b) == 1..Len(b.meshes)

RECURSIVE Ascending(_)
Ascending(S) ==
    IF S = {} THEN <<>>
    ELSE LET least == CHOOSE x \in S : \A y \in S : x <= y
         IN <<least>> \o Ascending(S \ {least})

RECURSIVE Descending(_)
Descending(S) ==
    IF S = {} THEN <<>>
    ELSE LET most == CHOOSE x \in S : \A y \in S : x >= y
         IN <<most>> \o Descending(S \ {most})

Mixed(a, b) ==
    \/ a.kind # b.kind
    \/ a.kind = "Indexed" /\ b.kind = "Indexed" /\ a.indices.kind # b.indices.kind

AgreesWith(ibd, index_format) ==
    \/ index_format = "None" /\ ibd.kind = "NonIndexed"
    \/ index_format = "Uint16" /\ ibd.kind = "Indexed" /\ ibd.indices.kind = "U16"
    \/ index_format = "Uint32" /\ ibd.kind = "Indexed" /\ ibd.indices.kind = "U32"

Passed == outcome = "ok"

Ran == outcome # "idle"

(***************************************************************************)
(* C1: in every indexed batch of a successful pass, the merged indices are *)
(* the members' indices in member order, each value v of member i stored   *)
(* as v + (sum of vertex_count of the members before i), the true sum and  *)
(* not its residue; the merged index_count is the sum of the members'      *)
(* index_count.                                                            *)
(***************************************************************************)
IndexRebasing ==
    Passed =>
        \A k \in DOMAIN mesh_batches :
            LET b == mesh_batches[k]
                lens == [i \in Members(b) |->
                            Len(RecordOf(b, i).index_buffer_data.indices.values)]
                verts == [i \in Members(b) |-> RecordOf(b, i).vertex_count]
                counts == [i \in Members(b) |->
                            RecordOf(b, i).index_buffer_data.index_count]
            IN b.index_data.kind = "Indexed" =>
                /\ Len(b.index_data.indices.values) = SumTo(lens, Len(b.meshes))
                /\ \A i \in Members(b) : \A j \in 1..lens[i] :
                        b.index_data.indices.values[SumTo(lens, i - 1) + j]
                            = RecordOf(b, i).index_buffer_data.indices.values[j]
                                + SumTo(verts, i - 1)
                /\ b.index_data.index_count = SumTo(counts, Len(b.meshes))

(***************************************************************************)
(* C2: a pass over a signature group that mixes Indexed with NonIndexed    *)
(* members, or 16-bit with 32-bit indices, panics and leaves the table as  *)
(* it was.                                                                 *)
(***************************************************************************)
MixedGroup ==
    \E m \in Referenced : \E n \in Referenced :
        /\ m \in DOMAIN render_meshes
        /\ n \in DOMAIN render_meshes
        /\ render_meshes[m].key = render_meshes[n].key
        /\ Mixed(render_meshes[m].index_buffer_data, render_meshes[n].index_buffer_data)

MismatchAborts ==
    (Ran /\ MixedGroup) => (outcome = "panic" /\ mesh_batches = entry_batches)

MismatchAbortsWitness ==
    /\ outcome = "panic"
    /\ Referenced \subseteq DOMAIN render_meshes
    /\ \E m \in Referenced : \E n \in Referenced :
        /\ render_meshes[m].key = render_meshes[n].key
        /\ render_meshes[m].index_buffer_data.kind = "Indexed"
        /\ render_meshes[n].index_buffer_data.kind = "Indexed"
        /\ Mixed(render_meshes[m].index_buffer_data, render_meshes[n].index_buffer_data)

(***************************************************************************)
(* C3: every member of a published batch agrees with the batch's signature *)
(* in kind and in width, and a pass over a record that disagrees with its  *)
(* own signature panics.                                                   *)
(***************************************************************************)
MembersMatchSignature ==
    /\ Passed =>
        \A k \in DOMAIN mesh_batches : \A i \in Members(mesh_batches[k]) :
            AgreesWith(RecordOf(mesh_batches[k], i).index_buffer_data, k.index_format)
    /\ (Ran /\ \E m \in Referenced \cap DOMAIN render_meshes :
                ~AgreesWith(render_meshes[m].index_buffer_data,
                            render_meshes[m].key.index_format))
        => outcome = "panic"

(***************************************************************************)
(* C4: a pass that references a mesh without a record panics, and the      *)
(* table after it is the table the pass was entered with.                  *)
(***************************************************************************)
MissingRecordAborts ==
    (Ran /\ ~(Referenced \subseteq DOMAIN render_meshes))
        => (outcome = "panic" /\ mesh_batches = entry_batches)

MissingRecordAbortsWitness ==
    /\ outcome = "panic"
    /\ ~(Referenced \subseteq DOMAIN render_meshes)
    /\ Referenced \cap DOMAIN render_meshes # {}
    /\ mesh_batches # EmptyMap

(***************************************************************************)
(* C5: after a successful pass the keys of the table are exactly the       *)
(* signatures of the meshes referenced in that pass and every member is    *)
(* referenced in that pass, whatever the table held before; a failed pass  *)
(* keeps the table of the last successful one.                             *)
(***************************************************************************)
TableFullyReplaced ==
    /\ Passed =>
        /\ DOMAIN mesh_batches = {render_meshes[m].key : m \in Referenced}
        /\ \A k \in DOMAIN mesh_batches : Range(mesh_batches[k].meshes) \subseteq Referenced
    /\ outcome = "panic" => mesh_batches = entry_batches

TableFullyReplacedWitness ==
    /\ Passed
    /\ \E k \in DOMAIN entry_batches : k \notin DOMAIN mesh_batches
    /\ \E k \in DOMAIN mesh_batches : k \notin DOMAIN entry_batches

(***************************************************************************)
(* C6: after a successful pass every referenced mesh occurs exactly once   *)
(* in the batch of its record's signature and in no other batch, every     *)
(* member of a batch is referenced, and no batch is empty.                 *)
(***************************************************************************)
BatchesPartitionReferenced ==
    Passed =>
        /\ \A m \in Referenced : \A k \in DOMAIN mesh_batches :
                Occurrences(mesh_batches[k].meshes, m)
                    = IF k = render_meshes[m].key THEN 1 ELSE 0
        /\ \A m \in Referenced : render_meshes[m].key \in DOMAIN mesh_batches
        /\ \A k \in DOMAIN mesh_batches :
                /\ Range(mesh_batches[k].meshes) \subseteq Referenced
                /\ mesh_batches[k].meshes # <<>>

BatchesPartitionReferencedWitness ==
    /\ Passed
    /\ Cardinality(DOMAIN mesh_batches) >= 2
    /\ \E m \in Referenced :
            /\ Occurrences(query_instance, m) >= 1
            /\ Occurrences(query_instance_slice, m) >= 1

(***************************************************************************)
(* C7: vertex_data of every batch is the members' vertex_buffer_data, byte *)
(* for byte, in member order; its length is the sum of their lengths.      *)
(***************************************************************************)
VertexConcatenation ==
    Passed =>
        \A k \in DOMAIN mesh_batches :
            LET b == mesh_batches[k]
                lens == [i \in Members(b) |-> Len(RecordOf(b, i).vertex_buffer_data)]
            IN /\ Len(b.vertex_data) = SumTo(lens, Len(b.meshes))
               /\ \A i \in Members(b) : \A j \in 1..lens[i] :
                    b.vertex_data[SumTo(lens, i - 1) + j]
                        = RecordOf(b, i).vertex_buffer_data[j]

VertexConcatenationWitness ==
    /\ Passed
    /\ \E k \in DOMAIN mesh_batches :
        /\ Len(mesh_batches[k].meshes) >= 2
        /\ Len(mesh_batches[k].vertex_data) >= 5

(***************************************************************************)
(* C8: indirect_data of every batch has one entry per member, in member    *)
(* order: an indexed draw with the member's index_count when the signature *)
(* has an index format, else a non-indexed draw with the member's          *)
(* vertex_count; all other fields are the default.                         *)
(***************************************************************************)
IndirectPerMember ==
    Passed =>
        \A k \in DOMAIN mesh_batches :
            LET b == mesh_batches[k]
            IN /\ Len(b.indirect_data.buffer) = Len(b.meshes)
               /\ b.indirect_data.kind
                    = IF k.index_format = "None" THEN "NonIndexed" ELSE "Indexed"
               /\ \A i \in Members(b) :
                    b.indirect_data.buffer[i] =
                        IF k.index_format = "None"
                        THEN [DefaultDrawIndirect EXCEPT !.vertex_count =
                                RecordOf(b, i).index_buffer_data.vertex_count]
                        ELSE [DefaultDrawIndexedIndirect EXCEPT !.vertex_count =
                                RecordOf(b, i).index_buffer_data.index_count]

IndirectPerMemberWitness ==
    /\ Passed
    /\ \E k \in DOMAIN mesh_batches :
        /\ k.index_format # "None"
        /\ Len(mesh_batches[k].indirect_data.buffer) = 2
        /\ mesh_batches[k].indirect_data.buffer[1].vertex_count
            # mesh_batches[k].indirect_data.buffer[2].vertex_count

(***************************************************************************)
(* C9: index_data of every batch of NonIndexed members is NonIndexed with  *)
(* vertex_count the sum of the members' NonIndexed vertex_count.           *)
(***************************************************************************)
NonIndexedAccumulation ==
    Passed =>
        \A k \in DOMAIN mesh_batches :
            LET b == mesh_batches[k]
                counts == [i \in Members(b) |->
                            RecordOf(b, i).index_buffer_data.vertex_count]
            IN (\A i \in Members(b) : RecordOf(b, i).index_buffer_data.kind = "NonIndexed")
                => /\ b.index_data.kind = "NonIndexed"
                   /\ b.index_data.vertex_count = SumTo(counts, Len(b.meshes))

NonIndexedAccumulationWitness ==
    /\ Passed
    /\ \E k \in DOMAIN mesh_batches :
        /\ Len(mesh_batches[k].meshes) >= 2
        /\ mesh_batches[k].index_data.kind = "NonIndexed"
        /\ \E i \in Members(mesh_batches[k]) : \E j \in Members(mesh_batches[k]) :
            RecordOf(mesh_batches[k], i).index_buffer_data.vertex_count
                # RecordOf(mesh_batches[k], j).index_buffer_data.vertex_count

(***************************************************************************)
(* C10: the pass over the streams as they are ends as the pass over the    *)
(* same table does when the same set of meshes is referenced once each in  *)
(* ascending order by instances only, and as it does when it is referenced *)
(* in descending order by slices only: both panic or both publish the same *)
(* table.                                                                  *)
(***************************************************************************)
SameEnd(r) ==
    /\ IsPanic(r) <=> outcome = "panic"
    /\ Passed => mesh_batches = r.batches

PassDependsOnReferencedSet ==
    Ran =>
        /\ SameEnd(PassResult(render_meshes, Ascending(Referenced), <<>>, overflow_checks))
        /\ SameEnd(PassResult(render_meshes, <<>>, Descending(Referenced), overflow_checks))

PassDependsOnReferencedSetWitness ==
    /\ Passed
    /\ Len(query_instance) = 2
    /\ query_instance[1] > query_instance[2]
    /\ query_instance_slice = <<query_instance[1]>>
    /\ \E k \in DOMAIN mesh_batches : Len(mesh_batches[k].meshes) = 2

====
